---- MODULE Spec2Model ----
(***************************************************************************)
(* Model of the pizza-order component graph (types/dag.go): construction   *)
(* with cycle validation, completion with dependency propagation, and the  *)
(* read-only queries.                                                      *)
(***************************************************************************)
EXTENDS Integers, Sequences, FiniteSets, TLC

(***************************************************************************)
(* Bounds of the model.                                                    *)
(***************************************************************************)
\* longest component list handed to NewDAG with caller-chosen states
MaxRaw == 2
\* longest component list handed to NewDAG with states set the way
\* NewPizzaOrderDAG sets them
MaxComps == 3
\* largest value the wall clock (time.Now) takes
MaxTime == 1
\* longest list with caller-chosen states that a clone is taken of
MaxCloneRaw == 1
\* most update handlers of one kind that wait for an activity at a time
MaxInFlight == 2
\* most executions of one activity that succeed for one order
MaxSucceed == 2

(***************************************************************************)
(* Types (ComponentType, ComponentState) and error values.                 *)
(***************************************************************************)
ComponentPayment == "PAYMENT"
ComponentMakeDough == "MAKE_DOUGH"
ComponentAddToppings == "ADD_TOPPINGS"
ComponentBakePizza == "BAKE_PIZZA"
ComponentDeliver == "DELIVER"

ComponentTypes ==
    {ComponentPayment, ComponentMakeDough, ComponentAddToppings,
     ComponentBakePizza, ComponentDeliver}

StateNeedsInit == "NEEDS_INIT"
StateIncomplete == "INCOMPLETE"
StateCompleted == "COMPLETED"

ComponentStates == {StateNeedsInit, StateIncomplete, StateCompleted}

\* a nil error
ErrNil == "nil"
\* fmt.Errorf("component %s not found", ...)
ErrNotFound == "component not found"
\* fmt.Errorf("component %s is not in INCOMPLETE state (current: %s)", ...)
ErrNotIncomplete == "component is not in INCOMPLETE state"
\* fmt.Errorf("cycle detected in DAG")
ErrCycle == "cycle detected in DAG"

\* a nil *time.Time is the empty sequence, a pointer to t is <<t>>
NilTime == << >>

\* Component literal
Component(type, state, dependsOn, updateTime, completeTime) ==
    [Type |-> type, State |-> state, DependsOn |-> dependsOn,
     UpdateTime |-> updateTime, CompleteTime |-> completeTime]

(***************************************************************************)
(* GetComponent: the position of the first component of the given type, 0  *)
(* standing for the "not found" error.                                     *)
(***************************************************************************)
\* variant: the loop returns its first component without comparing the type
GetComponentAlwaysFirst(comps, componentType) ==
    IF Len(comps) > 0 THEN 1 ELSE 0

GetComponent(comps, componentType) ==
    IF \E i \in 1..Len(comps) : comps[i].Type = componentType
    THEN CHOOSE i \in 1..Len(comps) :
            /\ comps[i].Type = componentType
            /\ \A j \in 1..(i - 1) : comps[j].Type # componentType
    ELSE 0

(***************************************************************************)
(* hasCycle / validateNoCycles: depth-first search with the two maps       *)
(* visited and recStack, here the sets of keys mapped to true.             *)
(***************************************************************************)
RECURSIVE hasCycle(_, _, _, _)
RECURSIVE hasCycleDeps(_, _, _, _, _)

\* variant: a dependency is entered again unless it is on the stack
hasCycleDepsRevisit(comps, deps, k, visited, recStack) ==
    IF k > Len(deps)
    THEN [cyc |-> FALSE, visited |-> visited, recStack |-> recStack,
          calls |-> << >>]
    ELSE IF deps[k] \in recStack
         THEN [cyc |-> TRUE, visited |-> visited, recStack |-> recStack,
               calls |-> << >>]
         ELSE LET r == hasCycle(comps, deps[k], visited, recStack)
              IN  IF r.cyc THEN r
                  ELSE LET rest == hasCycleDeps(comps, deps, k + 1,
                                                r.visited, r.recStack)
                       IN  [rest EXCEPT !.calls = r.calls \o @]

\* the loop over component.DependsOn, from position k on; calls lists the
\* ids hasCycle was called with, in the order of the calls
hasCycleDeps(comps, deps, k, visited, recStack) ==
    IF k > Len(deps)
    THEN [cyc |-> FALSE, visited |-> visited, recStack |-> recStack,
          calls |-> << >>]
    ELSE IF deps[k] \notin visited
         THEN LET r == hasCycle(comps, deps[k], visited, recStack)
              IN  IF r.cyc THEN r
                  ELSE LET rest == hasCycleDeps(comps, deps, k + 1,
                                                r.visited, r.recStack)
                       IN  [rest EXCEPT !.calls = r.calls \o @]
         ELSE IF deps[k] \in recStack
              THEN [cyc |-> TRUE, visited |-> visited, recStack |-> recStack,
                    calls |-> << >>]
              ELSE hasCycleDeps(comps, deps, k + 1, visited, recStack)

hasCycle(comps, componentType, visited, recStack) ==
    LET v1 == visited \cup {componentType}
        r1 == recStack \cup {componentType}
        idx == GetComponent(comps, componentType)
    IN  IF idx = 0
        THEN \* return false, recStack[componentType] is left true
             [cyc |-> FALSE, visited |-> v1, recStack |-> r1,
              calls |-> << componentType >>]
        ELSE LET r == hasCycleDeps(comps, comps[idx].DependsOn, 1, v1, r1)
             IN  IF r.cyc
                 THEN [r EXCEPT !.calls = << componentType >> \o @]
                 ELSE [cyc |-> FALSE, visited |-> r.visited,
                       recStack |-> r.recStack \ {componentType},
                       calls |-> << componentType >> \o r.calls]

RECURSIVE validateFrom(_, _, _, _)
\* the loop over d.components, from position i on
validateFrom(comps, i, visited, recStack) ==
    IF i > Len(comps) THEN ErrNil
    ELSE IF comps[i].Type \notin visited
         THEN LET r == hasCycle(comps, comps[i].Type, visited, recStack)
              IN  IF r.cyc THEN ErrCycle
                  ELSE validateFrom(comps, i + 1, r.visited, r.recStack)
         ELSE validateFrom(comps, i + 1, visited, recStack)

validateNoCycles(comps) == validateFrom(comps, 1, {}, {})

RECURSIVE validateInOrder(_, _, _, _, _)
\* the loop of validateNoCycles taken over the positions in the order
\* given, from its k-th entry on, with the ids hasCycle was called with
validateInOrder(comps, order, k, visited, recStack) ==
    IF k > Len(order) THEN [err |-> ErrNil, calls |-> << >>]
    ELSE LET type == comps[order[k]].Type
         IN  IF type \notin visited
             THEN LET r == hasCycle(comps, type, visited, recStack)
                  IN  IF r.cyc
                      THEN [err |-> ErrCycle, calls |-> r.calls]
                      ELSE LET rest == validateInOrder(comps, order, k + 1,
                                                       r.visited, r.recStack)
                           IN  [rest EXCEPT !.calls = r.calls \o @]
             ELSE validateInOrder(comps, order, k + 1, visited, recStack)

(***************************************************************************)
(* NewDAG: the DAG holds the components it is given; nil on a cycle.       *)
(***************************************************************************)
NewDAG(components) ==
    LET err == validateNoCycles(components)
    IN  IF err # ErrNil
        THEN [ok |-> FALSE, components |-> << >>, err |-> err]
        ELSE [ok |-> TRUE, components |-> components, err |-> ErrNil]

\* variant: ADD_TOPPINGS is written with PAYMENT as its dependency
PizzaComponentsToppingsOnPayment(now) ==
    << Component(ComponentPayment, StateIncomplete, << >>, now, NilTime),
       Component(ComponentMakeDough, StateNeedsInit,
                 << ComponentPayment >>, now, NilTime),
       Component(ComponentAddToppings, StateNeedsInit,
                 << ComponentPayment >>, now, NilTime),
       Component(ComponentBakePizza, StateNeedsInit,
                 << ComponentAddToppings >>, now, NilTime),
       Component(ComponentDeliver, StateNeedsInit,
                 << ComponentBakePizza >>, now, NilTime) >>

\* variant: BAKE_PIZZA is written with MAKE_DOUGH as its dependency
PizzaComponentsBakeOnDough(now) ==
    << Component(ComponentPayment, StateIncomplete, << >>, now, NilTime),
       Component(ComponentMakeDough, StateNeedsInit,
                 << ComponentPayment >>, now, NilTime),
       Component(ComponentAddToppings, StateNeedsInit,
                 << ComponentMakeDough >>, now, NilTime),
       Component(ComponentBakePizza, StateNeedsInit,
                 << ComponentMakeDough >>, now, NilTime),
       Component(ComponentDeliver, StateNeedsInit,
                 << ComponentBakePizza >>, now, NilTime) >>

\* the component literal of NewPizzaOrderDAG, now == time.Now()
PizzaComponents(now) ==
    << Component(ComponentPayment, StateIncomplete, << >>, now, NilTime),
       Component(ComponentMakeDough, StateNeedsInit,
                 << ComponentPayment >>, now, NilTime),
       Component(ComponentAddToppings, StateNeedsInit,
                 << ComponentMakeDough >>, now, NilTime),
       Component(ComponentBakePizza, StateNeedsInit,
                 << ComponentAddToppings >>, now, NilTime),
       Component(ComponentDeliver, StateNeedsInit,
                 << ComponentBakePizza >>, now, NilTime) >>

NewPizzaOrderDAG(now) == NewDAG(PizzaComponents(now)).components

(***************************************************************************)
(* updateDependentComponents: one scan in declaration order.  clk is what  *)
(* time.Now() returns at a promotion (line 125).                           *)
(***************************************************************************)
\* variant: the loop over the dependencies stops after the first one
allDepsCompleteFirstOnly(comps, component) ==
    \A k \in 1..Len(component.DependsOn) :
        k = 1 =>
            LET dep == GetComponent(comps, component.DependsOn[k])
            IN  dep # 0 /\ comps[dep].State = StateCompleted

\* variant: a dependency that is INCOMPLETE counts as complete
allDepsCompleteOrReady(comps, component) ==
    \A k \in 1..Len(component.DependsOn) :
        LET dep == GetComponent(comps, component.DependsOn[k])
        IN  dep # 0 /\ comps[dep].State # StateNeedsInit

allDepsComplete(comps, component) ==
    \A k \in 1..Len(component.DependsOn) :
        LET dep == GetComponent(comps, component.DependsOn[k])
        IN  dep # 0 /\ comps[dep].State = StateCompleted

RECURSIVE updateFrom(_, _, _)
updateFrom(comps, i, clk) ==
    IF i > Len(comps) THEN comps
    ELSE IF comps[i].State # StateNeedsInit
         THEN updateFrom(comps, i + 1, clk)
         ELSE IF allDepsComplete(comps, comps[i])
              THEN updateFrom(
                     [comps EXCEPT ![i].State = StateIncomplete,
                                   ![i].UpdateTime = clk],
                     i + 1, clk)
              ELSE updateFrom(comps, i + 1, clk)

RECURSIVE promoteAllFrom(_, _, _)
promoteAllFrom(comps, i, clk) ==
    IF i > Len(comps) THEN comps
    ELSE IF comps[i].State # StateNeedsInit
         THEN promoteAllFrom(comps, i + 1, clk)
         ELSE promoteAllFrom(
                [comps EXCEPT ![i].State = StateIncomplete,
                              ![i].UpdateTime = clk],
                i + 1, clk)

RECURSIVE updateInOrder(_, _, _, _)
\* the scan of updateDependentComponents taken over the positions in the
\* order given, from its k-th entry on
updateInOrder(comps, order, k, clk) ==
    IF k > Len(order) THEN comps
    ELSE LET i == order[k]
         IN  IF comps[i].State # StateNeedsInit
             THEN updateInOrder(comps, order, k + 1, clk)
             ELSE IF allDepsComplete(comps, comps[i])
                  THEN updateInOrder(
                         [comps EXCEPT ![i].State = StateIncomplete,
                                       ![i].UpdateTime = clk],
                         order, k + 1, clk)
                  ELSE updateInOrder(comps, order, k + 1, clk)

RECURSIVE touchFrom(_, _, _)
touchFrom(comps, i, clk) ==
    IF i > Len(comps) THEN comps
    ELSE IF comps[i].State # StateNeedsInit
         THEN touchFrom(comps, i + 1, clk)
         ELSE IF allDepsComplete(comps, comps[i])
              THEN touchFrom(
                     [comps EXCEPT ![i].State = StateIncomplete,
                                   ![i].UpdateTime = clk],
                     i + 1, clk)
              ELSE touchFrom([comps EXCEPT ![i].UpdateTime = clk], i + 1, clk)

\* variant: UpdateTime is stamped on every NEEDS_INIT component looked at
updateDependentComponentsTouch(comps, clk) == touchFrom(comps, 1, clk)

\* variant: every NEEDS_INIT component is promoted, dependencies unchecked
updateDependentComponentsAll(comps, clk) == promoteAllFrom(comps, 1, clk)

\* variant: nothing is promoted
updateDependentComponentsNone(comps, clk) == comps

updateDependentComponents(comps, clk) == updateFrom(comps, 1, clk)

(***************************************************************************)
(* CompleteComponent: now is time.Now() at line 94, later the value the     *)
(* clock has during the scan that follows (now <= later).                  *)
(***************************************************************************)
\* variant: no check of the component's state
CompleteComponentNoGuard(comps, componentType, now, later) ==
    LET idx == GetComponent(comps, componentType)
    IN  IF idx = 0
        THEN [err |-> ErrNotFound, components |-> comps]
        ELSE [err |-> ErrNil,
              components |->
                updateDependentComponents(
                  [comps EXCEPT ![idx].State = StateCompleted,
                                ![idx].CompleteTime = << now >>,
                                ![idx].UpdateTime = now],
                  later)]

\* variant: the error of GetComponent is dropped
CompleteComponentIgnoreMissing(comps, componentType, now, later) ==
    LET idx == GetComponent(comps, componentType)
    IN  IF idx = 0
        THEN [err |-> ErrNil, components |-> comps]
        ELSE IF comps[idx].State # StateIncomplete
             THEN [err |-> ErrNotIncomplete, components |-> comps]
             ELSE [err |-> ErrNil,
                   components |->
                     updateDependentComponents(
                       [comps EXCEPT ![idx].State = StateCompleted,
                                     ![idx].CompleteTime = << now >>,
                                     ![idx].UpdateTime = now],
                       later)]

\* variant: the state check rejects only a COMPLETED component
CompleteComponentAllowBlocked(comps, componentType, now, later) ==
    LET idx == GetComponent(comps, componentType)
    IN  IF idx = 0
        THEN [err |-> ErrNotFound, components |-> comps]
        ELSE IF comps[idx].State = StateCompleted
             THEN [err |-> ErrNotIncomplete, components |-> comps]
             ELSE [err |-> ErrNil,
                   components |->
                     updateDependentComponents(
                       [comps EXCEPT ![idx].State = StateCompleted,
                                     ![idx].CompleteTime = << now >>,
                                     ![idx].UpdateTime = now],
                       later)]

CompleteComponent(comps, componentType, now, later) ==
    LET idx == GetComponent(comps, componentType)
    IN  IF idx = 0
        THEN [err |-> ErrNotFound, components |-> comps]
        ELSE IF comps[idx].State # StateIncomplete
             THEN [err |-> ErrNotIncomplete, components |-> comps]
             ELSE [err |-> ErrNil,
                   components |->
                     updateDependentComponents(
                       [comps EXCEPT ![idx].State = StateCompleted,
                                     ![idx].CompleteTime = << now >>,
                                     ![idx].UpdateTime = now],
                       later)]

RECURSIVE allCompletedFrom(_, _)
\* the loop of AllComponentsCompleted, from position i on
allCompletedFrom(comps, i) ==
    IF i > Len(comps) THEN TRUE
    ELSE IF comps[i].State # StateCompleted THEN FALSE
         ELSE allCompletedFrom(comps, i + 1)

\* variant: only a NEEDS_INIT component counts as not completed
AllComponentsCompletedNoneBlocked(comps) ==
    ~ \E i \in 1..Len(comps) : comps[i].State = StateNeedsInit

\* variant: the loop returns after looking at the first component
AllComponentsCompletedFirstOnly(comps) ==
    Len(comps) = 0 \/ comps[1].State = StateCompleted

AllComponentsCompleted(comps) == allCompletedFrom(comps, 1)

\* variant: the loop keeps going and the last INCOMPLETE component wins
GetNextComponentLast(comps) ==
    IF \E i \in 1..Len(comps) : comps[i].State = StateIncomplete
    THEN CHOOSE i \in 1..Len(comps) :
            /\ comps[i].State = StateIncomplete
            /\ \A j \in (i + 1)..Len(comps) : comps[j].State # StateIncomplete
    ELSE 0

\* position of the next component to work on, 0 for nil
GetNextComponent(comps) ==
    IF \E i \in 1..Len(comps) : comps[i].State = StateIncomplete
    THEN CHOOSE i \in 1..Len(comps) :
            /\ comps[i].State = StateIncomplete
            /\ \A j \in 1..(i - 1) : comps[j].State # StateIncomplete
    ELSE 0

\* GetComponents hands out d.components itself
GetComponents(comps) == comps

(***************************************************************************)
(* MarshalJSON: json.Marshal(d.components), a JSON array with one object   *)
(* per component, keyed by the json tags of Component; a nil CompleteTime  *)
(* is written as null (here << >>).                                        *)
(***************************************************************************)
JSONNull == << >>

MarshalComponent(c) ==
    [type |-> c.Type, state |-> c.State, dependsOn |-> c.DependsOn,
     updateTime |-> c.UpdateTime,
     completeTime |-> IF c.CompleteTime = NilTime THEN JSONNull
                      ELSE << c.CompleteTime[1] >>]

\* variant: the Alias type is marshalled, a struct with no exported field
MarshalJSONAlias(comps) == [kind |-> "object", items |-> << >>]

MarshalJSON(comps) ==
    [kind |-> "array",
     items |-> [i \in 1..Len(comps) |-> MarshalComponent(comps[i])]]

(***************************************************************************)
(* Decoding into a DAG, as value.Get(&state) does for the "components"     *)
(* key of a PizzaOrder: DAG declares no UnmarshalJSON and its only field   *)
(* is unexported, so encoding/json rejects an array for it and fills in    *)
(* nothing for an object.                                                  *)
(***************************************************************************)
\* json: cannot unmarshal array into Go struct field of type types.DAG
ErrUnmarshalType == "json: cannot unmarshal array into Go value of type types.DAG"

UnmarshalDAG(json) ==
    IF json.kind = "array"
    THEN [err |-> ErrUnmarshalType, components |-> << >>]
    ELSE [err |-> ErrNil, components |-> << >>]

(***************************************************************************)
(* The component lists handed to NewDAG.  Component types are opaque       *)
(* strings compared only for equality, so the generated lists use three of *)
(* them and introduce them in a fixed order of first occurrence.           *)
(***************************************************************************)
TypeOrder == << ComponentPayment, ComponentMakeDough, ComponentAddToppings >>

\* the DependsOn lists of the generated components: none or one type, and
\* for the lists that carry derived states also one pair
RawDepsChoices ==
    { << >> } \cup { << TypeOrder[k] >> : k \in 1..Len(TypeOrder) }

DepsChoices == RawDepsChoices \cup { << TypeOrder[1], TypeOrder[2] >> }

FirstOccurrenceOrder(ts, n) ==
    \A i \in 1..n :
        \/ ts[i] = 1
        \/ \E j \in 1..(i - 1) : ts[j] >= ts[i] - 1

TypeSeqs(n) ==
    { ts \in [1..n -> 1..Len(TypeOrder)] : FirstOccurrenceOrder(ts, n) }

\* a list whose State fields are whatever the caller wrote
RawInput(in) ==
    \E n \in 0..MaxRaw :
      \E ts \in TypeSeqs(n), ds \in [1..n -> RawDepsChoices],
         ss \in [1..n -> ComponentStates] :
        in = [i \in 1..n |->
                Component(TypeOrder[ts[i]], ss[i], ds[i], 0, NilTime)]

\* a list written the way NewPizzaOrderDAG writes its own: INCOMPLETE for a
\* component without dependencies, NEEDS_INIT for the others
DefInput(in) ==
    \E n \in 0..MaxComps :
      \E ts \in TypeSeqs(n), ds \in [1..n -> DepsChoices] :
        in = [i \in 1..n |->
                Component(TypeOrder[ts[i]],
                          IF ds[i] = << >> THEN StateIncomplete
                                           ELSE StateNeedsInit,
                          ds[i], 0, NilTime)]

(***************************************************************************)
(* Clone.  The result is the list of copied components together with the   *)
(* positions at which the copy holds the very pointer of the original      *)
(* (none: line 164 allocates a Component for every position).              *)
(***************************************************************************)
\* variant: the slice of pointers is copied, not the components behind it
CloneShallow(comps) ==
    [components |-> comps, shared |-> 1..Len(comps)]

Clone(comps) ==
    [components |->
        [i \in 1..Len(comps) |->
            LET c == comps[i]
                clonedDeps == [k \in 1..Len(c.DependsOn) |-> c.DependsOn[k]]
                clonedCompleteTime ==
                    IF c.CompleteTime # NilTime
                    THEN << c.CompleteTime[1] >>
                    ELSE NilTime
            IN  Component(c.Type, c.State, clonedDeps, c.UpdateTime,
                          clonedCompleteTime)],
     shared |-> {}]

(***************************************************************************)
(* State.                                                                  *)
(***************************************************************************)
VARIABLES
    input,   \* the components argument of NewDAG
    phase,   \* "new": NewDAG not called yet; "live": it returned a DAG;
             \* "failed": it returned nil and an error
    dag,     \* d.components of the DAG (<< >> while there is none)
    clock,   \* the last value read from time.Now()
    last,    \* the last call: its name, argument and returned error
    pre,     \* d.components when the last call started
    ret,     \* what the last call returned besides its error
    clone,   \* the components of the DAG that Clone returned
    shared,  \* the positions where clone and dag point at one Component
    snap,    \* the value of d.components when Clone was called
    touched, \* "noclone": Clone not called yet; else which of the two DAGs
             \* CompleteComponent was called on since: "none", "original",
             \* "clone" or "both"
    replay,  \* d.components in a second run of the same calls
    clock2,  \* the last value read from time.Now() in the second run
    order,   \* the fields of the workflow's state variable besides DAG
    wfpc,    \* where PizzaOrderWorkflow is: "init", "await", "returned"
             \* or "cancelled" (Await returned an error)
    hostNow, \* the value of workflow.Now(ctx)
    inflight, \* the update handlers waiting for an activity, per handler
              \* and activity
    failed   \* the activities of which an execution for the order failed

cloneVars == << clone, shared, snap, touched >>

replayVars == << replay, clock2 >>

wfVars == << order, wfpc, hostNow, inflight, failed >>

vars == << input, phase, dag, clock, last, pre, ret, clone, shared, snap,
          touched, replay, clock2, order, wfpc, hostNow, inflight, failed >>

\* no Clone call made yet
NoClone ==
    /\ clone = << >>
    /\ shared = {}
    /\ snap = << >>
    /\ touched = "noclone"

\* no second run
NoReplay ==
    /\ replay = << >>
    /\ clock2 = 0

\* the state variable of a workflow that has not run
NoOrder ==
    [State |-> "", CreateTime |-> 0, UpdateTime |-> 0,
     PaymentTxnID |-> 0, PaymentAmount |-> 0, DeliveryID |-> 0,
     DriverName |-> "", TrackingURL |-> 0, EstimatedArrival |-> NilTime]

\* no update handler waits for an activity
NoInFlight ==
    [payment |-> 0, confirmation |-> {}, delivery |-> 0, notification |-> {}]

\* no workflow
NoWorkflow ==
    /\ order = NoOrder
    /\ wfpc = "init"
    /\ hostNow = 0
    /\ inflight = NoInFlight
    /\ failed = {}

\* nothing returned
NoRet == << >>

NoCall == [op |-> "none", arg |-> "", err |-> ErrNil]

Init ==
    /\ \/ RawInput(input)
       \/ DefInput(input)
       \/ input = PizzaComponents(0)
    /\ phase = "new"
    /\ dag = << >>
    /\ clock = 0
    /\ last = NoCall
    /\ pre = << >>
    /\ ret = NoRet
    /\ NoClone
    /\ NoReplay
    /\ NoWorkflow

CallNewDAG ==
    /\ phase = "new"
    /\ LET r == NewDAG(input)
       IN  /\ phase' = IF r.ok THEN "live" ELSE "failed"
           /\ dag' = r.components
           /\ last' = [op |-> "NewDAG", arg |-> "", err |-> r.err]
    /\ pre' = dag
    /\ ret' = NoRet
    /\ UNCHANGED << input, clock >>
    /\ UNCHANGED << cloneVars, replayVars, wfVars >>

CallCompleteComponent ==
    /\ phase = "live"
    /\ \E componentType \in ComponentTypes, now \in clock..MaxTime :
       \E later \in now..MaxTime :
         /\ now <= clock + 1
         /\ later <= now + 1
         /\ LET r == CompleteComponent(dag, componentType, now, later)
            IN  /\ dag' = r.components
                /\ last' = [op |-> "CompleteComponent",
                            arg |-> componentType, err |-> r.err]
                /\ clock' = IF r.err # ErrNil THEN clock ELSE later
         /\ pre' = dag
    /\ ret' = NoRet
    /\ UNCHANGED << input, phase >>
    /\ UNCHANGED << cloneVars, replayVars, wfVars >>

Next ==
    \/ CallNewDAG
    \/ CallCompleteComponent

Spec == Init /\ [][Next]_vars

(***************************************************************************)
(* The read-only calls.  ret is the position of the component a call       *)
(* returns a pointer to (0 for nil), or the value it returns.              *)
(***************************************************************************)
CallGetComponent ==
    /\ phase = "live"
    /\ \E componentType \in ComponentTypes :
         LET idx == GetComponent(dag, componentType)
         IN  /\ ret' = idx
             /\ last' = [op |-> "GetComponent", arg |-> componentType,
                         err |-> IF idx = 0 THEN ErrNotFound ELSE ErrNil]
    /\ dag' = dag
    /\ pre' = dag
    /\ UNCHANGED << input, phase, clock >>
    /\ UNCHANGED << cloneVars, replayVars, wfVars >>

CallAllComponentsCompleted ==
    /\ phase = "live"
    /\ ret' = AllComponentsCompleted(dag)
    /\ last' = [op |-> "AllComponentsCompleted", arg |-> "", err |-> ErrNil]
    /\ dag' = dag
    /\ pre' = dag
    /\ UNCHANGED << input, phase, clock >>
    /\ UNCHANGED << cloneVars, replayVars, wfVars >>

CallGetNextComponent ==
    /\ phase = "live"
    /\ ret' = GetNextComponent(dag)
    /\ last' = [op |-> "GetNextComponent", arg |-> "", err |-> ErrNil]
    /\ dag' = dag
    /\ pre' = dag
    /\ UNCHANGED << input, phase, clock >>
    /\ UNCHANGED << cloneVars, replayVars, wfVars >>

CallGetComponents ==
    /\ phase = "live"
    /\ ret' = GetComponents(dag)
    /\ last' = [op |-> "GetComponents", arg |-> "", err |-> ErrNil]
    /\ dag' = dag
    /\ pre' = dag
    /\ UNCHANGED << input, phase, clock >>
    /\ UNCHANGED << cloneVars, replayVars, wfVars >>

CallMarshalJSON ==
    /\ phase = "live"
    /\ ret' = MarshalJSON(dag)
    /\ last' = [op |-> "MarshalJSON", arg |-> "", err |-> ErrNil]
    /\ dag' = dag
    /\ pre' = dag
    /\ UNCHANGED << input, phase, clock >>
    /\ UNCHANGED << cloneVars, replayVars, wfVars >>

\* the bytes MarshalJSON just produced are decoded into a fresh DAG, whose
\* components ret then holds
CallUnmarshal ==
    /\ phase = "live"
    /\ last.op = "MarshalJSON"
    /\ LET r == UnmarshalDAG(ret)
       IN  /\ ret' = r.components
           /\ last' = [op |-> "Unmarshal", arg |-> "", err |-> r.err]
    /\ dag' = dag
    /\ pre' = dag
    /\ UNCHANGED << input, phase, clock >>
    /\ UNCHANGED << cloneVars, replayVars, wfVars >>

QueryNext ==
    \/ CallNewDAG
    \/ CallCompleteComponent
    \/ CallGetComponent
    \/ CallAllComponentsCompleted
    \/ CallGetNextComponent
    \/ CallGetComponents
    \/ CallMarshalJSON
    \/ CallUnmarshal

\* the read-only calls are exercised on the pizza graph and on the lists
\* with caller-chosen states, which cover every combination of states
QueryInit ==
    /\ \/ RawInput(input)
       \/ input = PizzaComponents(0)
    /\ phase = "new"
    /\ dag = << >>
    /\ clock = 0
    /\ last = NoCall
    /\ pre = << >>
    /\ ret = NoRet
    /\ NoClone
    /\ NoReplay
    /\ NoWorkflow

QuerySpec == QueryInit /\ [][QueryNext]_vars

(***************************************************************************)
(* A DAG and its clone.  A write to a Component that both DAGs point at is *)
(* seen through both.                                                      *)
(***************************************************************************)
\* the components seen through ptrs once the DAG that shares the positions
\* in shared with it holds written
seenThrough(ptrs, written) ==
    [i \in 1..Len(ptrs) |-> IF i \in shared THEN written[i] ELSE ptrs[i]]

CallClone ==
    /\ phase = "live"
    /\ touched = "noclone"
    /\ LET r == Clone(dag)
       IN  /\ clone' = r.components
           /\ shared' = r.shared
    /\ snap' = dag
    /\ touched' = "none"
    /\ last' = [op |-> "Clone", arg |-> "", err |-> ErrNil]
    /\ pre' = dag
    /\ ret' = NoRet
    /\ UNCHANGED << input, phase, dag, clock, replayVars, wfVars >>

CompleteOnOriginal ==
    /\ phase = "live"
    /\ \E componentType \in ComponentTypes, now \in clock..MaxTime :
       \E later \in now..MaxTime :
         /\ now <= clock + 1
         /\ later <= now + 1
         /\ LET r == CompleteComponent(dag, componentType, now, later)
            IN  /\ dag' = r.components
                /\ clone' = seenThrough(clone, r.components)
                /\ last' = [op |-> "CompleteComponent",
                            arg |-> componentType, err |-> r.err]
                /\ clock' = IF r.err # ErrNil THEN clock ELSE later
    /\ touched' = CASE touched = "none" -> "original"
                    [] touched = "clone" -> "both"
                    [] OTHER -> touched
    /\ pre' = dag
    /\ ret' = NoRet
    /\ UNCHANGED << input, phase, shared, snap, replayVars, wfVars >>

CompleteOnClone ==
    /\ phase = "live"
    /\ touched # "noclone"
    /\ \E componentType \in ComponentTypes, now \in clock..MaxTime :
       \E later \in now..MaxTime :
         /\ now <= clock + 1
         /\ later <= now + 1
         /\ LET r == CompleteComponent(clone, componentType, now, later)
            IN  /\ clone' = r.components
                /\ dag' = seenThrough(dag, r.components)
                /\ last' = [op |-> "Clone.CompleteComponent",
                            arg |-> componentType, err |-> r.err]
                /\ clock' = IF r.err # ErrNil THEN clock ELSE later
    /\ touched' = CASE touched = "none" -> "clone"
                    [] touched = "original" -> "both"
                    [] OTHER -> touched
    /\ pre' = clone
    /\ ret' = NoRet
    /\ UNCHANGED << input, phase, shared, snap, replayVars, wfVars >>

CloneNext ==
    \/ CallNewDAG
    \/ CallClone
    \/ CompleteOnOriginal
    \/ CompleteOnClone

\* clones are taken of the pizza graph and of the short lists with
\* caller-chosen states
CloneInit ==
    /\ \/ RawInput(input) /\ Len(input) <= MaxCloneRaw
       \/ input = PizzaComponents(0)
    /\ phase = "new"
    /\ dag = << >>
    /\ clock = 0
    /\ last = NoCall
    /\ pre = << >>
    /\ ret = NoRet
    /\ NoClone
    /\ NoReplay
    /\ NoWorkflow

CloneSpec == CloneInit /\ [][CloneNext]_vars

(***************************************************************************)
(* Two runs of the same calls, as when the host replays a workflow: both   *)
(* see the same recorded workflow.Now(ctx), while each time.Now() of the   *)
(* DAG reads the wall clock of its own run.                                *)
(***************************************************************************)
RunsNewPizzaOrderDAG ==
    /\ phase = "new"
    /\ \E now1 \in 0..MaxTime, now2 \in 0..MaxTime :
         /\ input' = PizzaComponents(now1)
         /\ dag' = NewPizzaOrderDAG(now1)
         /\ replay' = NewPizzaOrderDAG(now2)
         /\ clock' = now1
         /\ clock2' = now2
    /\ phase' = "live"
    /\ last' = [op |-> "NewPizzaOrderDAG", arg |-> "", err |-> ErrNil]
    /\ pre' = dag
    /\ ret' = NoRet
    /\ UNCHANGED << cloneVars, wfVars >>

RunsCompleteComponent ==
    /\ phase = "live"
    /\ \E componentType \in ComponentTypes :
       \E now1 \in clock..MaxTime, now2 \in clock2..MaxTime :
       \E later1 \in now1..MaxTime, later2 \in now2..MaxTime :
       \E host \in hostNow..MaxTime :
         /\ now1 <= clock + 1 /\ later1 <= now1 + 1
         /\ now2 <= clock2 + 1 /\ later2 <= now2 + 1
         /\ host <= hostNow + 1
         /\ LET r1 == CompleteComponent(dag, componentType, now1, later1)
                r2 == CompleteComponent(replay, componentType, now2, later2)
            IN  /\ dag' = r1.components
                /\ replay' = r2.components
                /\ last' = [op |-> "CompleteComponent",
                            arg |-> componentType, err |-> r1.err]
                /\ clock' = IF r1.err # ErrNil THEN clock ELSE later1
                /\ clock2' = IF r2.err # ErrNil THEN clock2 ELSE later2
         /\ hostNow' = host
    /\ pre' = dag
    /\ ret' = NoRet
    /\ UNCHANGED << input, phase, cloneVars, order, wfpc, inflight, failed >>

ReplayNext ==
    \/ RunsNewPizzaOrderDAG
    \/ RunsCompleteComponent

ReplayInit ==
    /\ input = << >>
    /\ phase = "new"
    /\ dag = << >>
    /\ clock = 0
    /\ last = NoCall
    /\ pre = << >>
    /\ ret = NoRet
    /\ NoClone
    /\ NoReplay
    /\ NoWorkflow

ReplaySpec == ReplayInit /\ [][ReplayNext]_vars

(***************************************************************************)
(* PizzaOrderWorkflow.  state is the pair of order (the PizzaOrder fields)  *)
(* and dag (state.DAG).  A handler that executes an activity gives up      *)
(* control until the activity returns, so it is one action up to each      *)
(* activity and one after it; the other handlers are one action.           *)
(***************************************************************************)
OrderStateInProgress == "IN_PROGRESS"
OrderStateCompleted == "COMPLETED"

ErrActivity == "activity failed"
ErrCanceled == "canceled"

\* The result of the execution of ProcessPayment that succeeds after issued
\* others did.  Every execution makes up a new TransactionID: the ids are
\* numbered in the order they are made up, 0 standing for the empty string.
\* Amount is input.Amount, here 1.
PaymentResult(issued) == [TransactionID |-> issued + 1, Amount |-> 1]

\* the result of ScheduleDelivery, its DeliveryID and TrackingURL made up
\* anew by every execution
DeliveryResult(issued, arrival) ==
    [DeliveryID |-> issued + 1, DriverName |-> "driver",
     TrackingURL |-> issued + 1, EstimatedArrival |-> arrival]

\* variant: an error of the notification activity ends the handler
proceedIfSent(notifErr) == notifErr = ErrNil

\* the error of a notification activity is dropped: the handler goes on
proceedAfterNotification(notifErr) == TRUE

\* variant: the order counts as done once its first component is
IsDoneFirstOnly(ph, comps) ==
    ph = "live" /\ Len(comps) > 0 /\ comps[1].State = StateCompleted

\* variant: the order never counts as done
IsDoneNever(ph, comps) == FALSE

\* PizzaOrder.IsDone; the DAG is nil unless phase is "live"
IsDone(ph, comps) ==
    IF ph # "live" THEN FALSE ELSE AllComponentsCompleted(comps)

\* variant: the handler marks the order completed before returning it
QueryHandlerMarksCompleted(state, comps) ==
    [result |-> [order |-> [state EXCEPT !.State = OrderStateCompleted],
                 components |-> comps],
     order |-> [state EXCEPT !.State = OrderStateCompleted],
     components |-> comps]

\* the query handler: what it returns, and state after it
QueryHandler(state, comps) ==
    [result |-> [order |-> state, components |-> comps],
     order |-> state,
     components |-> comps]

\* No condition of the workflow or of the DAG reads a timestamp, so in the
\* workflow both clocks advance by one at every successful step that reads
\* them, up to MaxTime.
Tick(t) == IF t < MaxTime THEN t + 1 ELSE t

WfStart ==
    /\ wfpc = "init"
    /\ phase = "new"
    /\ input' = PizzaComponents(clock)
    /\ dag' = NewPizzaOrderDAG(clock)
    /\ order' = [NoOrder EXCEPT !.State = OrderStateInProgress,
                                !.CreateTime = hostNow,
                                !.UpdateTime = hostNow]
    /\ phase' = "live"
    /\ wfpc' = "await"
    /\ last' = [op |-> "PizzaOrderWorkflow", arg |-> "", err |-> ErrNil]
    /\ pre' = dag
    /\ ret' = NoRet
    /\ UNCHANGED << clock, hostNow, inflight, failed, cloneVars,
                    replayVars >>

\* variant: the handler returns success whatever CompleteComponent returned
CompleteInHandlerIgnoreErr(op, componentType) ==
    LET now == Tick(clock)
        r == CompleteComponent(dag, componentType, now, now)
    IN  /\ dag' = r.components
        /\ last' = [op |-> op, arg |-> componentType, err |-> ErrNil]
        /\ clock' = now
        /\ order' = [order EXCEPT !.UpdateTime = Tick(hostNow)]
        /\ hostNow' = Tick(hostNow)
        /\ pre' = dag

\* state.DAG.CompleteComponent(componentType) and what every update handler
\* does after it, as the handler named op
CompleteInHandler(op, componentType) ==
    LET now == Tick(clock)
        later == now
        host == Tick(hostNow)
    IN
      /\ LET r == CompleteComponent(dag, componentType, now, later)
         IN  /\ dag' = r.components
             /\ last' = [op |-> op, arg |-> componentType, err |-> r.err]
             /\ clock' = IF r.err # ErrNil THEN clock ELSE later
             /\ order' = IF r.err # ErrNil THEN order
                         ELSE [order EXCEPT !.UpdateTime = host]
             /\ hostNow' = IF r.err # ErrNil THEN hostNow ELSE host
      /\ pre' = dag

\* the update handlers that wait for an activity to return
Waiting ==
    inflight.payment + Cardinality(inflight.confirmation)
        + inflight.delivery + Cardinality(inflight.notification)

\* the handler named op returns the error err and changes nothing
FailInHandler(op, arg, err) ==
    /\ last' = [op |-> op, arg |-> arg, err |-> err]
    /\ pre' = dag
    /\ UNCHANGED << dag, clock, order, hostNow >>

\* the handler of the update named op that completes componentType
HandleStep(op, componentType) ==
    /\ wfpc = "await"
    /\ CompleteInHandler(op, componentType)
    /\ UNCHANGED << input, phase, wfpc, inflight, failed, cloneVars,
                    replayVars >>

\* UpdateMakeDough, UpdateAddToppings, UpdateBakePizza
UpdateStep ==
    /\ \E u \in { << "MakeDough", ComponentMakeDough >>,
                  << "AddToppings", ComponentAddToppings >>,
                  << "BakePizza", ComponentBakePizza >> } :
         HandleStep(u[1], u[2])
    /\ ret' = NoRet

\* the UpdateCompletePayment handler up to ExecuteActivity("ProcessPayment")
HandleCompletePayment ==
    /\ wfpc = "await"
    /\ Waiting < MaxInFlight
    /\ inflight' = [inflight EXCEPT !.payment = @ + 1]
    /\ last' = [op |-> "CompletePayment", arg |-> "ProcessPayment",
                err |-> ErrNil]
    /\ pre' = dag
    /\ UNCHANGED << input, phase, dag, clock, order, wfpc, hostNow,
                    failed, cloneVars, replayVars >>

\* the CompletePayment update is received
UpdateCompletePayment == HandleCompletePayment /\ ret' = NoRet

\* variant: the handler stores paymentResult before it looks at the error,
\* so a failed ProcessPayment leaves the zero values in the order
ProcessPaymentReturnsStoresFirst ==
    /\ wfpc = "await"
    /\ inflight.payment > 0
    /\ \E ok \in BOOLEAN :
         IF ok
         THEN /\ order.PaymentTxnID < MaxSucceed
              /\ LET paymentResult == PaymentResult(order.PaymentTxnID)
                 IN  order' = [order EXCEPT
                                 !.PaymentTxnID = paymentResult.TransactionID,
                                 !.PaymentAmount = paymentResult.Amount]
              /\ inflight' = [inflight EXCEPT
                                 !.payment = @ - 1,
                                 !.confirmation = @ \cup { order'.PaymentTxnID }]
              /\ last' = [op |-> "CompletePayment",
                          arg |-> "SendOrderConfirmation", err |-> ErrNil]
              /\ failed' = failed
         ELSE /\ order' = [order EXCEPT !.PaymentTxnID = 0,
                                        !.PaymentAmount = 0]
              /\ inflight' = [inflight EXCEPT !.payment = @ - 1]
              /\ last' = [op |-> "CompletePayment", arg |-> "ProcessPayment",
                          err |-> ErrActivity]
              /\ failed' = failed \cup { "ProcessPayment" }
    /\ pre' = dag
    /\ ret' = NoRet
    /\ UNCHANGED << input, phase, dag, clock, wfpc, hostNow,
                    cloneVars, replayVars >>

\* ProcessPayment returns: the handler returns its error, or stores the
\* result and executes SendOrderConfirmation
ProcessPaymentReturns ==
    /\ wfpc = "await"
    /\ inflight.payment > 0
    /\ \E ok \in BOOLEAN :
         IF ok
         THEN /\ order.PaymentTxnID < MaxSucceed
              /\ LET paymentResult == PaymentResult(order.PaymentTxnID)
                 IN  order' = [order EXCEPT
                                 !.PaymentTxnID = paymentResult.TransactionID,
                                 !.PaymentAmount = paymentResult.Amount]
              /\ inflight' = [inflight EXCEPT
                                 !.payment = @ - 1,
                                 !.confirmation = @ \cup { order'.PaymentTxnID }]
              /\ last' = [op |-> "CompletePayment",
                          arg |-> "SendOrderConfirmation", err |-> ErrNil]
              /\ failed' = failed
         ELSE /\ order' = order
              /\ failed' = failed \cup { "ProcessPayment" }
              /\ inflight' = [inflight EXCEPT !.payment = @ - 1]
              /\ last' = [op |-> "CompletePayment", arg |-> "ProcessPayment",
                          err |-> ErrActivity]
    /\ pre' = dag
    /\ ret' = NoRet
    /\ UNCHANGED << input, phase, dag, clock, wfpc, hostNow,
                    cloneVars, replayVars >>

\* SendOrderConfirmation returns, its error dropped: the rest of the handler
SendOrderConfirmationReturns ==
    /\ wfpc = "await"
    /\ \E stored \in inflight.confirmation, notifErr \in { ErrNil, ErrActivity } :
         /\ inflight' = [inflight EXCEPT !.confirmation = @ \ { stored }]
         /\ ret' = [stored |-> stored, notifErr |-> notifErr]
         /\ IF proceedAfterNotification(notifErr)
            THEN CompleteInHandler("CompletePayment", ComponentPayment)
            ELSE FailInHandler("CompletePayment", ComponentPayment, notifErr)
    /\ UNCHANGED << input, phase, wfpc, failed, cloneVars, replayVars >>

\* the UpdateDeliver handler up to ExecuteActivity("ScheduleDelivery")
HandleDeliver ==
    /\ wfpc = "await"
    /\ Waiting < MaxInFlight
    /\ inflight' = [inflight EXCEPT !.delivery = @ + 1]
    /\ last' = [op |-> "Deliver", arg |-> "ScheduleDelivery", err |-> ErrNil]
    /\ pre' = dag
    /\ UNCHANGED << input, phase, dag, clock, order, wfpc, hostNow,
                    failed, cloneVars, replayVars >>

\* the Deliver update is received
UpdateDeliver == HandleDeliver /\ ret' = NoRet

\* ScheduleDelivery returns: the handler returns its error, or stores the
\* result and executes SendDeliveryNotification
ScheduleDeliveryReturns ==
    /\ wfpc = "await"
    /\ inflight.delivery > 0
    /\ \E ok \in BOOLEAN :
         IF ok
         THEN /\ order.DeliveryID < MaxSucceed
              /\ LET res == DeliveryResult(order.DeliveryID, << clock >>)
                 IN  order' = [order EXCEPT
                                 !.DeliveryID = res.DeliveryID,
                                 !.DriverName = res.DriverName,
                                 !.TrackingURL = res.TrackingURL,
                                 !.EstimatedArrival = res.EstimatedArrival]
              /\ inflight' = [inflight EXCEPT
                                 !.delivery = @ - 1,
                                 !.notification = @ \cup { order'.DeliveryID }]
              /\ last' = [op |-> "Deliver",
                          arg |-> "SendDeliveryNotification", err |-> ErrNil]
              /\ failed' = failed
         ELSE /\ order' = order
              /\ failed' = failed \cup { "ScheduleDelivery" }
              /\ inflight' = [inflight EXCEPT !.delivery = @ - 1]
              /\ last' = [op |-> "Deliver", arg |-> "ScheduleDelivery",
                          err |-> ErrActivity]
    /\ pre' = dag
    /\ ret' = NoRet
    /\ UNCHANGED << input, phase, dag, clock, wfpc, hostNow,
                    cloneVars, replayVars >>

\* SendDeliveryNotification returns, its error dropped: the rest of the
\* handler
SendDeliveryNotificationReturns ==
    /\ wfpc = "await"
    /\ \E stored \in inflight.notification, notifErr \in { ErrNil, ErrActivity } :
         /\ inflight' = [inflight EXCEPT !.notification = @ \ { stored }]
         /\ ret' = [stored |-> stored, notifErr |-> notifErr]
         /\ IF proceedAfterNotification(notifErr)
            THEN CompleteInHandler("Deliver", ComponentDeliver)
            ELSE FailInHandler("Deliver", ComponentDeliver, notifErr)
    /\ UNCHANGED << input, phase, wfpc, failed, cloneVars, replayVars >>

\* a QueryOrderState query; the host answers queries of a workflow that has
\* returned as well
QueryOrderState ==
    /\ wfpc # "init"
    /\ LET r == QueryHandler(order, dag)
       IN  /\ ret' = r.result
           /\ order' = r.order
           /\ dag' = r.components
    /\ last' = [op |-> "QueryOrderState", arg |-> "", err |-> ErrNil]
    /\ pre' = dag
    /\ UNCHANGED << input, phase, clock, wfpc, hostNow, inflight,
                    failed, cloneVars, replayVars >>

\* workflow.Await finds its condition true: lines 226-233
AwaitReturns ==
    /\ wfpc = "await"
    /\ IsDone(phase, dag)
    /\ order' = [order EXCEPT !.State = OrderStateCompleted,
                              !.UpdateTime = Tick(hostNow)]
    /\ hostNow' = Tick(hostNow)
    /\ wfpc' = "returned"
    /\ last' = [op |-> "Await", arg |-> "", err |-> ErrNil]
    /\ pre' = dag
    /\ ret' = NoRet
    /\ UNCHANGED << input, phase, dag, clock, inflight, failed, cloneVars,
                    replayVars >>

\* the workflow is cancelled while workflow.Await finds its condition
\* false: lines 222-224
AwaitCanceled ==
    /\ wfpc = "await"
    /\ ~IsDone(phase, dag)
    /\ wfpc' = "cancelled"
    /\ last' = [op |-> "Await", arg |-> "", err |-> ErrCanceled]
    /\ pre' = dag
    /\ ret' = NoRet
    /\ UNCHANGED << input, phase, dag, clock, order, hostNow, inflight,
                    failed, cloneVars, replayVars >>

WorkflowNext ==
    \/ WfStart
    \/ UpdateStep
    \/ UpdateCompletePayment
    \/ ProcessPaymentReturns
    \/ SendOrderConfirmationReturns
    \/ UpdateDeliver
    \/ ScheduleDeliveryReturns
    \/ SendDeliveryNotificationReturns
    \/ QueryOrderState
    \/ AwaitReturns
    \/ AwaitCanceled

WorkflowInit ==
    /\ input = << >>
    /\ phase = "new"
    /\ dag = << >>
    /\ clock = 0
    /\ last = NoCall
    /\ pre = << >>
    /\ ret = NoRet
    /\ NoClone
    /\ NoReplay
    /\ NoWorkflow

WorkflowSpec == WorkflowInit /\ [][WorkflowNext]_vars

\* the Await condition is evaluated again after every handler
WorkflowLiveSpec == WorkflowSpec /\ WF_vars(AwaitReturns)

(***************************************************************************)
(* The HTTP layer: POST /orders/{id}/{action} is completeStep, which sends *)
(* an update to the workflow of the order.                                 *)
(***************************************************************************)
\* no update
NoUpdate == ""

\* the actions of the requests: the five of the switch, and others
Actions ==
    { "payment", "make-dough", "add-toppings", "bake", "deliver",
      "Payment", "cancel" }

\* variant: the switch has no default, the last case takes its place
updateNameDefaultDeliver(action) ==
    CASE action = "payment" -> "CompletePayment"
      [] action = "make-dough" -> "MakeDough"
      [] action = "add-toppings" -> "AddToppings"
      [] action = "bake" -> "BakePizza"
      [] OTHER -> "Deliver"

\* the switch of completeStep
updateName(action) ==
    CASE action = "payment" -> "CompletePayment"
      [] action = "make-dough" -> "MakeDough"
      [] action = "add-toppings" -> "AddToppings"
      [] action = "bake" -> "BakePizza"
      [] action = "deliver" -> "Deliver"
      [] OTHER -> NoUpdate

\* the workflow receives the update named name: the handler registered
\* under that name runs, up to its first ExecuteActivity if it has one
UpdateWorkflow(name) ==
    CASE name = "CompletePayment" -> HandleCompletePayment
      [] name = "MakeDough" -> HandleStep("MakeDough", ComponentMakeDough)
      [] name = "AddToppings" ->
            HandleStep("AddToppings", ComponentAddToppings)
      [] name = "BakePizza" -> HandleStep("BakePizza", ComponentBakePizza)
      [] name = "Deliver" -> HandleDeliver

\* the request changes nothing of the workflow and is answered with status
Refuse(action, name, status) ==
    /\ ret' = [action |-> action, updateName |-> name, status |-> status]
    /\ last' = [op |-> "completeStep", arg |-> action, err |-> status]
    /\ pre' = dag
    /\ UNCHANGED << input, phase, dag, clock, cloneVars, replayVars, wfVars >>

completeStep ==
    \E action \in Actions :
        LET name == updateName(action)
        IN  IF name = NoUpdate
            THEN Refuse(action, name, "Unknown action")
            ELSE IF wfpc = "await"
            THEN /\ UpdateWorkflow(name)
                 /\ ret' = [action |-> action, updateName |-> name,
                            status |-> "sent"]
            ELSE Refuse(action, name, "Failed to complete step")

ApiNext ==
    \/ WfStart
    \/ completeStep
    \/ ProcessPaymentReturns
    \/ SendOrderConfirmationReturns
    \/ ScheduleDeliveryReturns
    \/ SendDeliveryNotificationReturns
    \/ AwaitReturns

ApiSpec == WorkflowInit /\ [][ApiNext]_vars

(***************************************************************************)
(* Vocabulary of the properties, written over the recorded call (last),    *)
(* the components before it (pre) and after it (dag).                      *)
(***************************************************************************)
Range(seq) == { seq[k] : k \in 1..Len(seq) }

\* the step an id names: the first one declared with it (0 if none)
StepOf(comps, id) ==
    LET S == { j \in 1..Len(comps) : comps[j].Type = id }
    IN  IF S = {} THEN 0 ELSE CHOOSE j \in S : \A k \in S : j <= k

\* no id is declared twice
UniqueIds(comps) ==
    \A i, j \in 1..Len(comps) : comps[i].Type = comps[j].Type => i = j

\* every dependsOn entry names a declared step
DepsExist(comps) ==
    \A i \in 1..Len(comps) :
        \A d \in Range(comps[i].DependsOn) : StepOf(comps, d) # 0

Completed == last.op = "CompleteComponent" /\ last.err = ErrNil

Rejected == last.op = "CompleteComponent" /\ last.err # ErrNil

\* the step the last CompleteComponent call named, in the components before it
Target == StepOf(pre, last.arg)

\* the steps that are Done once the target is marked Done
DoneAfter == { j \in 1..Len(pre) : pre[j].State = StateCompleted } \cup { Target }

\* the Blocked steps whose whole dependsOn set is Done once the target is
DueSteps ==
    { i \in 1..Len(pre) :
        /\ pre[i].State = StateNeedsInit
        /\ \A d \in Range(pre[i].DependsOn) : StepOf(pre, d) \in DoneAfter }

\* C1: a successful Complete(X) of a Ready step X marks X Done and moves to
\* Ready exactly the Blocked steps whose whole dependsOn set is Done after
\* that; every other Blocked step stays Blocked.
C1_PropagationExact ==
    Completed =>
        /\ pre[Target].State = StateIncomplete
        /\ dag[Target].State = StateCompleted
        /\ \A i \in 1..Len(pre) :
             pre[i].State = StateNeedsInit =>
                dag[i].State = IF i \in DueSteps THEN StateIncomplete
                                                 ELSE StateNeedsInit

\* a completion that promoted one step and left Blocked another, one of whose
\* two dependencies is Done and the other is not
C1_Witness ==
    /\ Completed
    /\ UniqueIds(pre) /\ DepsExist(pre)
    /\ DueSteps # {}
    /\ \E i \in 1..Len(pre) :
         /\ pre[i].State = StateNeedsInit
         /\ dag[i].State = StateNeedsInit
         /\ Len(pre[i].DependsOn) > 1
         /\ \E d \in Range(pre[i].DependsOn) : StepOf(pre, d) \in DoneAfter

\* C2: Complete on a step that is Blocked or already Done returns the
\* "not in INCOMPLETE state" error and leaves every step's state,
\* updateTime, completeTime and dependsOn as they were.
C2_GuardedTransition ==
    ( /\ last.op = "CompleteComponent"
      /\ Target # 0
      /\ pre[Target].State \in {StateNeedsInit, StateCompleted} ) =>
        /\ last.err = ErrNotIncomplete
        /\ dag = pre

\* a second Complete of a step that an earlier call completed
C2_Witness ==
    /\ last.op = "CompleteComponent"
    /\ Target # 0
    /\ pre[Target].State = StateCompleted
    /\ pre[Target].CompleteTime # NilTime
    /\ last.err = ErrNotIncomplete

\* C3: Complete with an id no step has returns the "not found" error and
\* leaves the graph as it was.
C3_NotFound ==
    ( /\ last.op = "CompleteComponent"
      /\ \A i \in 1..Len(pre) : pre[i].Type # last.arg ) =>
        /\ last.err = ErrNotFound
        /\ dag = pre

\* an unknown id given to a graph that has steps, one of them Ready
C3_Witness ==
    /\ last.op = "CompleteComponent"
    /\ \A i \in 1..Len(pre) : pre[i].Type # last.arg
    /\ \E i \in 1..Len(pre) : pre[i].State = StateIncomplete
    /\ last.err = ErrNotFound

\* C4: every change of a step's state made by an operation on a graph is
\* Blocked -> Ready or Ready -> Done: none goes backwards, none goes from
\* Blocked to Done in one step.
C4_LegalTransitions ==
    (phase = "live" /\ last.op \notin {"none", "NewDAG"}) =>
        /\ Len(dag) = Len(pre)
        /\ \A i \in 1..Len(pre) :
             \/ dag[i].State = pre[i].State
             \/ pre[i].State = StateNeedsInit /\ dag[i].State = StateIncomplete
             \/ pre[i].State = StateIncomplete /\ dag[i].State = StateCompleted

\* one call that made both kinds of change
C4_Witness ==
    /\ Completed
    /\ \E i \in 1..Len(pre) :
         pre[i].State = StateNeedsInit /\ dag[i].State = StateIncomplete
    /\ \E i \in 1..Len(pre) :
         pre[i].State = StateIncomplete /\ dag[i].State = StateCompleted

\* C5: AllDone is false in every state in which some step is not Done, and a
\* step that is Done is Done after every later operation.
C5_MonotonicCompletion ==
    phase = "live" =>
        /\ (\E i \in 1..Len(dag) : dag[i].State # StateCompleted)
              => ~ AllComponentsCompleted(dag)
        /\ last.op \notin {"none", "NewDAG"} =>
              \A i \in 1..Len(pre) :
                 pre[i].State = StateCompleted => dag[i].State = StateCompleted

\* a graph with a Done step, no Blocked step and a step still to complete,
\* reached by a completion
C5_Witness ==
    /\ Completed
    /\ \E i \in 1..Len(pre) : pre[i].State = StateCompleted
    /\ \E i \in 1..Len(dag) : dag[i].State = StateIncomplete
    /\ ~ \E i \in 1..Len(dag) : dag[i].State = StateNeedsInit
    /\ ~ AllComponentsCompleted(dag)

(***************************************************************************)
(* Construction.  The dependency relation of a definition list relates an  *)
(* id to every id a definition of it depends on.                           *)
(***************************************************************************)
Ids(comps) == { comps[i].Type : i \in 1..Len(comps) }

DependsOnIds(comps, id) ==
    UNION { Range(comps[i].DependsOn) :
              i \in { j \in 1..Len(comps) : comps[j].Type = id } }

RECURSIVE ReachedWithin(_, _, _)
\* the ids reached from the set S by 1..k dependency edges
ReachedWithin(comps, S, k) ==
    IF k = 0 THEN {}
    ELSE LET N == UNION { DependsOnIds(comps, id) : id \in S }
         IN  N \cup ReachedWithin(comps, N, k - 1)

RelationHasCycle(comps) ==
    \E id \in Ids(comps) : id \in ReachedWithin(comps, {id}, Len(comps))

Constructed == last.op = "NewDAG"

\* the error kinds of the specification that the code has no value for
ErrDuplicateId == "DuplicateId"
ErrUnknownDependency == "UnknownDependency"

\* C6: NewDAG fails with the cycle error and returns no graph whenever the
\* dependency relation of the definitions has a cycle, and succeeds whenever
\* the relation over unique, existing ids is acyclic.
C6_CycleDetection ==
    Constructed =>
        /\ RelationHasCycle(input) =>
              phase = "failed" /\ last.err = ErrCycle /\ dag = << >>
        /\ (UniqueIds(input) /\ DepsExist(input) /\ ~ RelationHasCycle(input))
              => phase = "live" /\ last.err = ErrNil /\ dag = input

\* C6 for definitions with unique ids (dependencies may name unknown ids)
C6_CycleDetectionUniqueIds ==
    (Constructed /\ UniqueIds(input)) =>
        /\ RelationHasCycle(input) =>
              phase = "failed" /\ last.err = ErrCycle /\ dag = << >>
        /\ (DepsExist(input) /\ ~ RelationHasCycle(input))
              => phase = "live" /\ last.err = ErrNil /\ dag = input

\* C7: NewDAG fails with DuplicateId, returning no graph, if an id appears
\* more than once; hence every constructed graph has unique ids.
C7_DuplicateIdRejected ==
    /\ (Constructed /\ ~ UniqueIds(input)) =>
          phase = "failed" /\ last.err = ErrDuplicateId /\ dag = << >>
    /\ phase = "live" => UniqueIds(dag)

\* C8: NewDAG fails with UnknownDependency, returning no graph, if a
\* dependsOn entry names an id that is not defined; hence in every
\* constructed graph each dependency names an existing step.
C8_UnknownDependencyRejected ==
    /\ (Constructed /\ ~ DepsExist(input)) =>
          phase = "failed" /\ last.err = ErrUnknownDependency /\ dag = << >>
    /\ phase = "live" => DepsExist(dag)

\* C9: after a successful NewDAG every step is Ready if its dependsOn is
\* empty and Blocked otherwise, and no step has a completeTime.
C9_InitialStates ==
    (Constructed /\ phase = "live") =>
        \A i \in 1..Len(dag) :
            /\ dag[i].State = IF dag[i].DependsOn = << >>
                              THEN StateIncomplete ELSE StateNeedsInit
            /\ dag[i].CompleteTime = NilTime

\* the states of the steps, in declaration order
StatesOf(comps) == [i \in 1..Len(comps) |-> comps[i].State]

PizzaIds ==
    << ComponentPayment, ComponentMakeDough, ComponentAddToppings,
       ComponentBakePizza, ComponentDeliver >>

IsPizzaGraph(comps) ==
    /\ Len(comps) = 5
    /\ [i \in 1..5 |-> comps[i].Type] = PizzaIds
    /\ [i \in 1..5 |-> comps[i].DependsOn] =
         << << >>, << ComponentPayment >>, << ComponentMakeDough >>,
            << ComponentAddToppings >>, << ComponentBakePizza >> >>

\* C10: in the pizza graph Payment is Ready and the others are Blocked after
\* construction; after Complete(Payment) Payment is Done, MakeDough is Ready
\* and AddToppings, BakePizza and Deliver are as they were, still Blocked.
C10_PizzaFirstStep ==
    /\ (Constructed /\ input = PizzaComponents(0)) =>
          /\ phase = "live"
          /\ IsPizzaGraph(dag)
          /\ StatesOf(dag) = << StateIncomplete, StateNeedsInit,
                 StateNeedsInit, StateNeedsInit, StateNeedsInit >>
    /\ ( /\ last.op = "CompleteComponent"
         /\ last.arg = ComponentPayment
         /\ pre = NewPizzaOrderDAG(0) ) =>
          /\ last.err = ErrNil
          /\ IsPizzaGraph(dag)
          /\ StatesOf(dag) = << StateCompleted, StateIncomplete,
                 StateNeedsInit, StateNeedsInit, StateNeedsInit >>
          /\ \A i \in 3..5 : dag[i] = pre[i]

\* Complete(Payment) was the first call on the fresh pizza graph
C10_Witness ==
    /\ last.op = "CompleteComponent"
    /\ last.arg = ComponentPayment
    /\ IsPizzaGraph(pre)
    /\ pre = input
    /\ last.err = ErrNil

(***************************************************************************)
(* The pizza graph: a chain in declaration order.                          *)
(***************************************************************************)
OnPizzaGraph == input = PizzaComponents(0) /\ phase = "live"

NumDone(comps) ==
    Cardinality({ i \in 1..Len(comps) : comps[i].State = StateCompleted })

ReadySteps(comps) ==
    { i \in 1..Len(comps) : comps[i].State = StateIncomplete }

\* C11: in the pizza graph, Complete of a step whose predecessor in the
\* chain is not Done fails with the "not in INCOMPLETE state" error and
\* changes nothing, and a Complete that succeeds names the first step that
\* is not Done: the successful completions come in the order Payment,
\* MakeDough, AddToppings, BakePizza, Deliver.
C11_PizzaDependencyEnforced ==
    (OnPizzaGraph /\ last.op = "CompleteComponent" /\ Target # 0) =>
        /\ (Target > 1 /\ pre[Target - 1].State # StateCompleted) =>
              last.err = ErrNotIncomplete /\ dag = pre
        /\ last.err = ErrNil =>
              /\ \A j \in 1..(Target - 1) : pre[j].State = StateCompleted
              /\ \A j \in Target..Len(pre) : pre[j].State # StateCompleted

\* bake before dough: Payment is Done, MakeDough is not, BakePizza is refused
C11_Witness ==
    /\ OnPizzaGraph
    /\ last.op = "CompleteComponent"
    /\ last.arg = ComponentBakePizza
    /\ pre[1].State = StateCompleted
    /\ pre[2].State = StateIncomplete
    /\ last.err = ErrNotIncomplete

\* C12: on the pizza graph, Complete of the next step in declared order
\* succeeds at every call, leaves exactly the following step Ready after
\* each of the first four completions, and the fifth makes AllDone true.
C12_PizzaInDeclaredOrder ==
    ( /\ OnPizzaGraph
      /\ last.op = "CompleteComponent"
      /\ Target = NumDone(pre) + 1 ) =>
        /\ last.err = ErrNil
        /\ NumDone(dag) = Target
        /\ Target < 5 => ReadySteps(dag) = { Target + 1 }
        /\ AllComponentsCompleted(dag) <=> Target = 5

\* the fifth completion, of Deliver, after which everything is Done
C12_Witness ==
    /\ OnPizzaGraph
    /\ Completed
    /\ last.arg = ComponentDeliver
    /\ NumDone(pre) = 4
    /\ AllComponentsCompleted(dag)

(***************************************************************************)
(* The read-only calls.                                                    *)
(***************************************************************************)
\* C13: GetNextComponent returns the first step in declaration order that is
\* Ready, returns nil exactly when no step is Ready, and changes nothing.
C13_NextReadyStep ==
    last.op = "GetNextComponent" =>
        /\ dag = pre
        /\ ret = 0 <=> ReadySteps(pre) = {}
        /\ ret # 0 => ret \in ReadySteps(pre)
                      /\ \A j \in ReadySteps(pre) : ret <= j

\* the answer is a step that follows one that is not Ready
C13_Witness ==
    /\ last.op = "GetNextComponent"
    /\ ret > 1
    /\ pre[ret].State = StateIncomplete

\* C14: AllComponentsCompleted returns true if and only if every step is
\* Done, and changes nothing.
C14_AllDone ==
    last.op = "AllComponentsCompleted" =>
        /\ dag = pre
        /\ ret <=> \A i \in 1..Len(pre) : pre[i].State = StateCompleted

\* true is returned for a graph whose last step an earlier call completed
C14_Witness ==
    /\ last.op = "AllComponentsCompleted"
    /\ ret = TRUE
    /\ Len(pre) > 1
    /\ \E i \in 1..Len(pre) : pre[i].CompleteTime # NilTime

\* C15: GetComponent returns the step with the requested id when there is
\* one and the "not found" error otherwise, and changes nothing either way.
C15_GetStep ==
    last.op = "GetComponent" =>
        /\ dag = pre
        /\ IF \E i \in 1..Len(pre) : pre[i].Type = last.arg
           THEN last.err = ErrNil /\ ret # 0 /\ pre[ret].Type = last.arg
           ELSE last.err = ErrNotFound /\ ret = 0

\* a step that is not the first one is found
C15_Witness ==
    /\ last.op = "GetComponent"
    /\ last.err = ErrNil
    /\ ret > 1

\* C19: the record list of MarshalJSON (and the list of GetComponents) has
\* one record per step, in declaration order, whose id, state, dependsOn,
\* updateTime and completeTime are those of the graph, and producing it
\* changes nothing.
C19_Snapshot ==
    /\ last.op = "MarshalJSON" =>
          /\ dag = pre
          /\ ret.kind = "array"
          /\ Len(ret.items) = Len(pre)
          /\ \A i \in 1..Len(pre) :
                /\ ret.items[i].type = pre[i].Type
                /\ ret.items[i].state = pre[i].State
                /\ ret.items[i].dependsOn = pre[i].DependsOn
                /\ ret.items[i].updateTime = pre[i].UpdateTime
                /\ IF pre[i].CompleteTime = NilTime
                   THEN ret.items[i].completeTime = JSONNull
                   ELSE ret.items[i].completeTime = pre[i].CompleteTime
    /\ last.op = "GetComponents" =>
          /\ dag = pre
          /\ Len(ret) = Len(pre)
          /\ \A i \in 1..Len(pre) : ret[i] = pre[i]

\* a snapshot with a completeTime in one record and null in another
C19_Witness ==
    /\ last.op = "MarshalJSON"
    /\ \E i \in 1..Len(pre) : ret.items[i].completeTime # JSONNull
    /\ \E i \in 1..Len(pre) : ret.items[i].completeTime = JSONNull

\* C18: decoding what MarshalJSON produced gives a graph that answers
\* GetComponent, GetNextComponent and AllComponentsCompleted as the original
\* does and that every CompleteComponent call takes to the same state.
C18_RoundTrip ==
    last.op = "Unmarshal" =>
        /\ last.err = ErrNil
        /\ AllComponentsCompleted(ret) = AllComponentsCompleted(pre)
        /\ GetNextComponent(ret) = GetNextComponent(pre)
        /\ \A t \in ComponentTypes :
              /\ GetComponent(ret, t) = GetComponent(pre, t)
              /\ CompleteComponent(ret, t, clock, clock) =
                    CompleteComponent(pre, t, clock, clock)

(***************************************************************************)
(* What a completion leaves alone.                                         *)
(***************************************************************************)
\* C16: a successful CompleteComponent(X) changes only the state, updateTime
\* and completeTime of X and the state and updateTime of the steps it
\* promotes to Ready; the steps, their order, every dependsOn and all fields
\* of every other step are unchanged.
C16_CompleteFrame ==
    Completed =>
        /\ Len(dag) = Len(pre)
        /\ \A i \in 1..Len(pre) :
              /\ dag[i].Type = pre[i].Type
              /\ dag[i].DependsOn = pre[i].DependsOn
              /\ i # Target =>
                    \/ dag[i] = pre[i]
                    \/ /\ pre[i].State = StateNeedsInit
                       /\ dag[i].State = StateIncomplete
                       /\ dag[i].CompleteTime = pre[i].CompleteTime

\* a completion at a later instant that promotes one step and leaves a
\* Blocked step and a Done step as they were
C16_Witness ==
    /\ Completed
    /\ dag[Target].UpdateTime # pre[Target].UpdateTime
    /\ \E i \in 1..Len(pre) : pre[i].State = StateNeedsInit /\ dag[i].State = StateIncomplete
    /\ \E i \in 1..Len(pre) : pre[i].State = StateNeedsInit /\ dag[i] = pre[i]
    /\ \E i \in 1..Len(pre) : pre[i].State = StateCompleted /\ dag[i] = pre[i]

\* C17: in every reachable state a step has a completeTime if and only if
\* its state is Done, and the completeTime is written once, at the step's
\* transition from Ready to Done, and never changed afterwards.
C17_CompleteTimeIffDone ==
    phase = "live" =>
        /\ \A i \in 1..Len(dag) :
              dag[i].CompleteTime # NilTime <=> dag[i].State = StateCompleted
        /\ last.op = "CompleteComponent" =>
              \A i \in 1..Len(pre) :
                 dag[i].CompleteTime # pre[i].CompleteTime =>
                    /\ pre[i].CompleteTime = NilTime
                    /\ pre[i].State = StateIncomplete
                    /\ dag[i].State = StateCompleted

\* the same statement for graphs constructed with no step declared Done
C17_CompleteTimeIffDoneFromNotDone ==
    (\A i \in 1..Len(input) : input[i].State # StateCompleted) =>
        C17_CompleteTimeIffDone

(***************************************************************************)
(* Clone.                                                                  *)
(***************************************************************************)
\* C20: Clone returns a graph equal to the original in every step's id,
\* state, dependsOn, updateTime and completeTime, and shares no mutable
\* storage with it: after any CompleteComponent calls on the clone alone the
\* original is as it was, and after any calls on the original alone the
\* clone is as it was.
C20_CloneIndependent ==
    touched # "noclone" =>
        /\ last.op = "Clone" =>
              /\ Len(clone) = Len(dag)
              /\ \A i \in 1..Len(dag) :
                    /\ clone[i].Type = dag[i].Type
                    /\ clone[i].State = dag[i].State
                    /\ clone[i].DependsOn = dag[i].DependsOn
                    /\ clone[i].UpdateTime = dag[i].UpdateTime
                    /\ clone[i].CompleteTime = dag[i].CompleteTime
        /\ shared = {}
        /\ touched \in { "none", "clone" } => dag = snap
        /\ touched \in { "none", "original" } => clone = snap

\* a clone taken after a completion, then completed further on its own
C20_Witness ==
    /\ touched = "clone"
    /\ \E i \in 1..Len(snap) : snap[i].CompleteTime # NilTime
    /\ \E i \in 1..Len(snap) :
          snap[i].State = StateIncomplete /\ clone[i].State = StateCompleted

\* the original completed further while the clone stays as it was taken
C20_WitnessOriginal ==
    /\ touched = "original"
    /\ \E i \in 1..Len(snap) :
          snap[i].State = StateIncomplete /\ dag[i].State = StateCompleted

(***************************************************************************)
(* Propagation as a whole.                                                 *)
(***************************************************************************)
\* every dependsOn entry of step i names a step that is Done
DepsDone(comps, i) ==
    \A d \in Range(comps[i].DependsOn) :
        StepOf(comps, d) # 0 /\ comps[StepOf(comps, d)].State = StateCompleted

\* the steps the last call moved from Blocked to Ready
Promoted ==
    { i \in 1..Len(pre) :
        pre[i].State = StateNeedsInit /\ dag[i].State = StateIncomplete }

\* the states are the ones construction is said to derive: Ready without
\* dependencies, Blocked with some
DerivedStates(comps) ==
    \A i \in 1..Len(comps) :
        comps[i].State = IF comps[i].DependsOn = << >>
                         THEN StateIncomplete ELSE StateNeedsInit

\* C25: after every successful CompleteComponent no step is left Blocked
\* while all of its dependencies are Done, and the steps the call promoted
\* are all direct dependents of the completed step.
C25_PropagationFixpoint ==
    Completed =>
        /\ \A i \in 1..Len(dag) :
              dag[i].State = StateNeedsInit => ~DepsDone(dag, i)
        /\ \A i \in Promoted : last.arg \in Range(pre[i].DependsOn)

\* the same statement for graphs whose states were written as derived
C25_PropagationFixpointDerived ==
    DerivedStates(input) => C25_PropagationFixpoint

\* the orders in which n positions can be scanned
ScanOrders(n) ==
    { o \in [1..n -> 1..n] : \A i, j \in 1..n : o[i] = o[j] => i = j }

\* the components as CompleteComponent hands them to the scan: the target
\* marked COMPLETED and stamped
Marked ==
    [pre EXCEPT ![Target].State = StateCompleted,
                ![Target].CompleteTime = dag[Target].CompleteTime,
                ![Target].UpdateTime = dag[Target].CompleteTime[1]]

\* C26: the result of propagation does not depend on the order in which the
\* Blocked steps are scanned: every scan order promotes the same steps and
\* leaves every step in the same state as the scan of CompleteComponent.
C26_ScanOrderIndependent ==
    Completed =>
        \A o \in ScanOrders(Len(pre)) :
            LET res == updateInOrder(Marked, o, 1, clock)
            IN  /\ StatesOf(res) = StatesOf(dag)
                /\ { i \in 1..Len(pre) :
                       pre[i].State = StateNeedsInit
                       /\ res[i].State = StateIncomplete } = Promoted

\* a completion that promotes one of two Blocked steps
C26_Witness ==
    /\ Completed
    /\ Promoted # {}
    /\ \E i \in 1..Len(pre) : pre[i].State = StateNeedsInit /\ i \notin Promoted

(***************************************************************************)
(* Every state reachable from a constructed graph.                          *)
(***************************************************************************)
\* the graph was written the way the steps are said to be declared: unique
\* ids, dependencies that exist, derived states
WellDeclared ==
    UniqueIds(input) /\ DepsExist(input) /\ DerivedStates(input)

\* C27: in every state reachable from a constructed graph a step that is
\* not Done is Blocked if and only if at least one of its dependencies is
\* not Done, and a step that is Done has all of its dependencies Done.
C27_ReadinessFunction ==
    phase = "live" =>
        \A i \in 1..Len(dag) :
            /\ dag[i].State # StateCompleted =>
                  (dag[i].State = StateNeedsInit <=> ~DepsDone(dag, i))
            /\ dag[i].State = StateCompleted => DepsDone(dag, i)

\* the same statement for graphs written as the steps are said to be declared
C27_ReadinessFunctionWellDeclared ==
    WellDeclared => C27_ReadinessFunction

\* C28: no constructed graph gets stuck: in every reachable state
\* GetNextComponent returns nil if and only if AllComponentsCompleted is
\* true, so while some step is not Done some step is Ready.
C28_NeverStuck ==
    phase = "live" =>
        (GetNextComponent(dag) = 0 <=> AllComponentsCompleted(dag))

\* the same statement for graphs written as the steps are said to be declared
C28_NeverStuckWellDeclared ==
    WellDeclared => C28_NeverStuck

\* the successful CompleteComponent calls made on the graph so far: each one
\* stamps the CompleteTime of one more step
Successes(comps) ==
    Cardinality({ i \in 1..Len(comps) : comps[i].CompleteTime # NilTime })

\* C29: on a constructed graph of n steps, completing the step that
\* GetNextComponent returns, again and again, reaches AllComponentsCompleted
\* after exactly n successful calls, and each step id is the target of
\* exactly one successful call.
C29_DrainsInNCalls ==
    phase = "live" =>
        /\ AllComponentsCompleted(dag) <=> Successes(dag) = Len(dag)
        /\ ~AllComponentsCompleted(dag) =>
              LET next == GetNextComponent(dag)
              IN  /\ next # 0
                  /\ CompleteComponent(dag, dag[next].Type,
                                       clock, clock).err = ErrNil
        /\ Completed =>
              pre[Target].CompleteTime = NilTime

\* the same statement for graphs written as the steps are said to be declared
C29_DrainsInNCallsWellDeclared ==
    WellDeclared => C29_DrainsInNCalls

(***************************************************************************)
(* The traversal of validateNoCycles.                                      *)
(***************************************************************************)
\* C30: validateNoCycles / hasCycle terminates on every finite list of
\* components, calls hasCycle with each step id at most once, and gives the
\* same accept/reject answer whichever component the traversal starts from.
C30_TraversalDeterministic ==
    last.op = "NewDAG" =>
        \A o \in ScanOrders(Len(input)) :
            LET r == validateInOrder(input, o, 1, {}, {})
            IN  /\ r.err = last.err
                /\ \A a, b \in 1..Len(r.calls) :
                      r.calls[a] = r.calls[b] => a = b
                /\ Range(r.calls) \subseteq
                      Ids(input) \cup UNION { DependsOnIds(input, id) : id \in Ids(input) }

\* a graph accepted after a traversal that met a step already visited
C30_Witness ==
    /\ last.op = "NewDAG"
    /\ last.err = ErrNil
    /\ Len(input) > 2
    /\ \E i, j \in 1..Len(input) :
          i # j /\ Range(input[i].DependsOn) \cap Range(input[j].DependsOn) # {}

\* a graph rejected for a cycle
C30_WitnessReject ==
    /\ last.op = "NewDAG"
    /\ last.err = ErrCycle
    /\ UniqueIds(input)
    /\ Len(input) > 1

(***************************************************************************)
(* Timestamps under replay.                                                *)
(***************************************************************************)
\* C21: timestamps are determined only by the clock the host supplies: two
\* runs that construct the same graph and make the same CompleteComponent
\* calls with the same recorded clock values end with the same UpdateTime
\* and CompleteTime for every step.
C21_TimestampsReplayable ==
    (phase = "live" /\ Len(replay) = Len(dag)) =>
        \A i \in 1..Len(dag) :
            /\ dag[i].UpdateTime = replay[i].UpdateTime
            /\ dag[i].CompleteTime = replay[i].CompleteTime

\* what the two runs do agree on: the state of every step
C21_StatesReplayable ==
    phase = "live" => StatesOf(dag) = StatesOf(replay)

(***************************************************************************)
(* The workflow.                                                           *)
(***************************************************************************)
\* all five components of the order are COMPLETED
AllFiveCompleted ==
    /\ Len(dag) = 5
    /\ \A i \in 1..5 : dag[i].State = StateCompleted

\* C22: the order's State is COMPLETED, and the workflow has returned, only
\* in states where all five components are COMPLETED; while any component
\* is not COMPLETED the State is IN_PROGRESS; and the State never goes back
\* from COMPLETED to IN_PROGRESS.
C22_CompletedOnlyWhenAllDone ==
    /\ [](wfpc # "init" =>
            /\ (order.State = OrderStateCompleted \/ wfpc = "returned") =>
                  AllFiveCompleted
            /\ ~AllFiveCompleted => order.State = OrderStateInProgress)
    /\ [][order.State = OrderStateCompleted =>
             order'.State = OrderStateCompleted]_vars

\* a query sees the returned workflow's order COMPLETED
C22_Witness ==
    /\ wfpc = "returned"
    /\ order.State = OrderStateCompleted
    /\ last.op = "QueryOrderState"
    /\ AllFiveCompleted

\* C23: once all five components are COMPLETED the workflow eventually
\* passes its Await, sets the order State to COMPLETED and returns; while
\* some component is not COMPLETED it stays blocked at the Await, whatever
\* updates and queries arrive.
C23_AwaitPassesWhenDone ==
    /\ (wfpc # "init" /\ AllFiveCompleted)
          ~> (wfpc = "returned" /\ order.State = OrderStateCompleted)
    /\ [][(wfpc = "await" /\ ~AllFiveCompleted /\ last'.err # ErrCanceled)
             => wfpc' = "await"]_vars

\* the workflow has just passed its Await
C23_Witness ==
    /\ last.op = "Await"
    /\ last.err = ErrNil
    /\ wfpc = "returned"
    /\ order.State = OrderStateCompleted

\* C24: a QueryOrderState query returns the current order state and changes
\* nothing: the order's fields and every component's state and timestamps
\* are the same after it as before, in any interleaving with updates.
C24_QueryReadOnly ==
    [][last'.op = "QueryOrderState" =>
          /\ ret' = [order |-> order, components |-> dag]
          /\ order' = order
          /\ dag' = dag
          /\ wfpc' = wfpc
          /\ inflight' = inflight]_vars

\* a query answered between updates, while a handler waits for an activity
C24_Witness ==
    /\ last.op = "QueryOrderState"
    /\ wfpc = "await"
    /\ ret.order.PaymentTxnID # 0
    /\ ret.components[2].State = StateCompleted
    /\ inflight # NoInFlight

(***************************************************************************)
(* The pizza order graph, step by step.                                    *)
(***************************************************************************)
\* C31: in every reachable state of the pizza order graph the COMPLETED
\* components form a prefix of the declaration order (PAYMENT, MAKE_DOUGH,
\* ADD_TOPPINGS, BAKE_PIZZA, DELIVER), at most one component is INCOMPLETE,
\* and it is the component right after that prefix.
C31_PizzaCompletedPrefix ==
    OnPizzaGraph =>
        LET k == NumDone(dag)
        IN  /\ \A i \in 1..Len(dag) : dag[i].Type = PizzaIds[i]
            /\ \A i \in 1..Len(dag) :
                  dag[i].State = StateCompleted <=> i <= k
            /\ Cardinality(ReadySteps(dag)) <= 1
            /\ ReadySteps(dag) \subseteq { k + 1 }

\* three components COMPLETED, BAKE_PIZZA the one that is INCOMPLETE
C31_Witness ==
    /\ OnPizzaGraph
    /\ NumDone(dag) = 3
    /\ ReadySteps(dag) = { 4 }
    /\ dag[5].State = StateNeedsInit

(***************************************************************************)
(* The update handlers of the workflow and the activities they execute.    *)
(***************************************************************************)
\* the names of the updates
UpdateNames == { "CompletePayment", "MakeDough", "AddToppings", "BakePizza", "Deliver" }

\* the step is the return of an update handler with an error
ReturnsError == last'.op \in UpdateNames /\ last'.err # ErrNil

\* the step is the return of an update handler without an error
ReturnsSuccess ==
    /\ last'.op \in UpdateNames
    /\ last'.arg \in ComponentTypes
    /\ last'.err = ErrNil

\* C32: an update that returns an error leaves the whole PizzaOrder as it
\* was when the update started: the step in which the handler returns the
\* error changes neither the DAG nor a field of the order, and the order
\* does not hold a TransactionID or a DeliveryID that this handler stored
\* (an id made up while the update ran is not a value the order had before
\* the update started).
C32_FailedUpdateLeavesOrder ==
    [][ReturnsError =>
          /\ dag' = dag
          /\ order' = order
          /\ (last'.op = "CompletePayment" /\ last'.arg = ComponentPayment)
                => order'.PaymentTxnID # ret'.stored
          /\ (last'.op = "Deliver" /\ last'.arg = ComponentDeliver)
                => order'.DeliveryID # ret'.stored]_vars

\* the state of the component named id
StateOfStep(comps, id) == comps[StepOf(comps, id)].State

\* the step is the start of the activity named activity by the update op
StartsActivity(op, activity) ==
    last = [op |-> op, arg |-> activity, err |-> ErrNil]

\* C33: the ProcessPayment activity is started only while the PAYMENT
\* component is INCOMPLETE and the ScheduleDelivery activity only while the
\* DELIVER component is INCOMPLETE, and for one order at most one execution
\* of ProcessPayment and at most one of ScheduleDelivery succeeds (the
\* TransactionID and the DeliveryID of the order number the executions that
\* succeeded).
C33_ActivitiesGatedByDAG ==
    wfpc # "init" =>
        /\ StartsActivity("CompletePayment", "ProcessPayment")
              => StateOfStep(dag, ComponentPayment) = StateIncomplete
        /\ StartsActivity("Deliver", "ScheduleDelivery")
              => StateOfStep(dag, ComponentDeliver) = StateIncomplete
        /\ order.PaymentTxnID <= 1
        /\ order.DeliveryID <= 1

\* the readiness invariant of the DAG: a component that is not COMPLETED is
\* NEEDS_INIT exactly when one of its dependencies is not COMPLETED, and a
\* COMPLETED component has all of its dependencies COMPLETED
Readiness(comps) ==
    \A i \in 1..Len(comps) :
        /\ comps[i].State # StateCompleted =>
              (comps[i].State = StateNeedsInit <=> ~DepsDone(comps, i))
        /\ comps[i].State = StateCompleted => DepsDone(comps, i)

\* C34: under every interleaving of the update handlers of one order each
\* component is completed by exactly one successful update: an update
\* returns success only in a step that takes its component from INCOMPLETE
\* to COMPLETED, a component becomes COMPLETED only in the step in which an
\* update for it returns success, and a COMPLETED component stays COMPLETED,
\* so of two concurrent updates for one component at most one returns
\* success; and the readiness invariant holds in every state, the states in
\* which handlers wait for an activity included.
C34_OneSuccessfulUpdatePerComponent ==
    /\ [](wfpc # "init" => Readiness(dag))
    /\ [][wfpc # "init" =>
            /\ ReturnsSuccess =>
                  /\ StateOfStep(dag, last'.arg) = StateIncomplete
                  /\ StateOfStep(dag', last'.arg) = StateCompleted
            /\ \A i \in 1..Len(dag) :
                  /\ dag[i].State = StateCompleted
                        => dag'[i].State = StateCompleted
                  /\ (dag[i].State # StateCompleted
                        /\ dag'[i].State = StateCompleted)
                        => ReturnsSuccess /\ last'.arg = dag[i].Type]_vars

\* of two CompletePayment updates that waited for their activities at the
\* same time one has returned success while the other still waits
C34_Witness ==
    /\ last = [op |-> "CompletePayment", arg |-> ComponentPayment,
               err |-> ErrNil]
    /\ StateOfStep(dag, ComponentPayment) = StateCompleted
    /\ inflight.confirmation # {}

\* the other of the two has returned, with an error, and the DAG is as the
\* first left it
C34_WitnessRejected ==
    /\ last.op = "CompletePayment"
    /\ last.arg = ComponentPayment
    /\ last.err = ErrNotIncomplete
    /\ ret.stored < order.PaymentTxnID
    /\ dag = pre
    /\ Waiting = 0

\* the step is the return of the update op with the error of its activity
ActivityFails(op, activity) ==
    last' = [op |-> op, arg |-> activity, err |-> ErrActivity]

\* the step is the call of CompleteComponent by the handler of the update
\* op, made while its component is INCOMPLETE
CompletesIncomplete(op, componentType) ==
    /\ last'.op = op
    /\ last'.arg = componentType
    /\ StateOfStep(dag, componentType) = StateIncomplete

\* C35: when the ProcessPayment activity fails the CompletePayment update
\* returns the error and neither a component nor a field of the order
\* changes, so PAYMENT stays INCOMPLETE, and a CompletePayment update whose
\* activity succeeds completes PAYMENT whenever PAYMENT is INCOMPLETE, after
\* failures too; likewise for ScheduleDelivery, Deliver and DELIVER.
C35_FailedActivityRetryable ==
    [][wfpc # "init" =>
         /\ ActivityFails("CompletePayment", "ProcessPayment")
               => dag' = dag /\ order' = order
         /\ ActivityFails("Deliver", "ScheduleDelivery")
               => dag' = dag /\ order' = order
         /\ CompletesIncomplete("CompletePayment", ComponentPayment)
               => /\ last'.err = ErrNil
                  /\ StateOfStep(dag', ComponentPayment) = StateCompleted
         /\ CompletesIncomplete("Deliver", ComponentDeliver)
               => /\ last'.err = ErrNil
                  /\ StateOfStep(dag', ComponentDeliver) = StateCompleted]_vars

\* ProcessPayment has failed and PAYMENT is INCOMPLETE as before
C35_WitnessFailed ==
    /\ last = [op |-> "CompletePayment", arg |-> "ProcessPayment",
               err |-> ErrActivity]
    /\ StateOfStep(dag, ComponentPayment) = StateIncomplete
    /\ dag = pre
    /\ order.PaymentTxnID = 0

\* after a ProcessPayment that failed, the one execution that succeeded
\* has completed PAYMENT
C35_Witness ==
    /\ "ProcessPayment" \in failed
    /\ last = [op |-> "CompletePayment", arg |-> ComponentPayment,
               err |-> ErrNil]
    /\ order.PaymentTxnID = 1
    /\ StateOfStep(dag, ComponentPayment) = StateCompleted
    /\ Waiting = 0

\* the same for a ScheduleDelivery that failed
C35_WitnessDeliver ==
    /\ "ScheduleDelivery" \in failed
    /\ last = [op |-> "Deliver", arg |-> ComponentDeliver, err |-> ErrNil]
    /\ order.DeliveryID = 1
    /\ AllFiveCompleted
    /\ Waiting = 0

\* the step is the return of the notification activity of the update op,
\* with the rest of the handler
NotificationReturns(op, componentType) ==
    /\ last'.op = op
    /\ last'.arg = componentType
    /\ ret' # NoRet

\* C36: a failure of SendOrderConfirmation or SendDeliveryNotification never
\* keeps the step from completing: when the notification activity returns,
\* sent or failed, to a CompletePayment handler whose ProcessPayment
\* succeeded and PAYMENT is INCOMPLETE, the update returns success and
\* PAYMENT is COMPLETED, and no update ever returns the error of a
\* notification; the same for Deliver and DELIVER.
C36_NotificationFailureIgnored ==
    [][wfpc # "init" =>
         \A u \in { << "CompletePayment", ComponentPayment >>,
                    << "Deliver", ComponentDeliver >> } :
            NotificationReturns(u[1], u[2]) =>
               /\ last'.err # ErrActivity
               /\ StateOfStep(dag, u[2]) = StateIncomplete
                     => /\ last'.err = ErrNil
                        /\ StateOfStep(dag', u[2]) = StateCompleted]_vars

\* the confirmation was not sent and CompletePayment completed PAYMENT
C36_Witness ==
    /\ last = [op |-> "CompletePayment", arg |-> ComponentPayment,
               err |-> ErrNil]
    /\ ret # NoRet
    /\ ret.notifErr = ErrActivity
    /\ pre # << >>
    /\ StateOfStep(pre, ComponentPayment) = StateIncomplete
    /\ StateOfStep(dag, ComponentPayment) = StateCompleted

\* the delivery notification was not sent and Deliver completed DELIVER
C36_WitnessDeliver ==
    /\ last = [op |-> "Deliver", arg |-> ComponentDeliver, err |-> ErrNil]
    /\ ret # NoRet
    /\ ret.notifErr = ErrActivity
    /\ AllFiveCompleted

(***************************************************************************)
(* The HTTP layer.                                                         *)
(***************************************************************************)
\* the step is a completeStep request
IsRequest(r) == "action" \in DOMAIN r

\* the update each action stands for
ActionUpdates ==
    { << "payment", "CompletePayment" >>, << "make-dough", "MakeDough" >>,
      << "add-toppings", "AddToppings" >>, << "bake", "BakePizza" >>,
      << "deliver", "Deliver" >> }

KnownActions == { au[1] : au \in ActionUpdates }

\* C37: completeStep maps payment to CompletePayment, make-dough to
\* MakeDough, add-toppings to AddToppings, bake to BakePizza and deliver to
\* Deliver, and the one update the workflow receives for such a request is
\* the one of that name; for every other action the workflow receives no
\* update, and neither the order, the DAG nor a handler changes.
C37_ActionsMapToUpdates ==
    /\ [](IsRequest(ret) =>
            /\ ret.action \in KnownActions
                  <=> << ret.action, ret.updateName >> \in ActionUpdates
            /\ ret.action \notin KnownActions <=> ret.updateName = NoUpdate
            /\ ret.status = "sent" =>
                  /\ ret.action \in KnownActions
                  /\ last.op = ret.updateName)
    /\ [][(IsRequest(ret') /\ ret'.action \notin KnownActions) =>
            /\ ret'.status = "Unknown action"
            /\ UNCHANGED << dag, order, wfpc, inflight, clock, hostNow,
                            failed >>]_vars

\* the request with action bake has made the BakePizza handler complete
\* BAKE_PIZZA
C37_Witness ==
    /\ IsRequest(ret)
    /\ ret = [action |-> "bake", updateName |-> "BakePizza",
              status |-> "sent"]
    /\ last = [op |-> "BakePizza", arg |-> ComponentBakePizza, err |-> ErrNil]
    /\ StateOfStep(dag, ComponentBakePizza) = StateCompleted

\* a request with an unknown action, refused while the order is in progress
C37_WitnessUnknown ==
    /\ IsRequest(ret)
    /\ ret.action = "cancel"
    /\ ret.status = "Unknown action"
    /\ wfpc = "await"
    /\ Waiting > 0
    /\ dag = pre

====
